---- MODULE Spec2Model ----
(***************************************************************************)
(* Model of src/app.py: a Streamlit chat script that forwards user turns   *)
(* to a remote assistant service, polls the run, dispatches the two local  *)
(* tool functions and renders the newest message into the transcript.      *)
(*                                                                         *)
(* The script body is re-executed from the top on every interaction; one   *)
(* browser session is modelled.  The remote service and the weather       *)
(* provider are the environment: every value they return (run status,      *)
(* tool-call batch, HTTP outcome, content blocks) is drawn from a bounded  *)
(* set.  A remote call is assumed to return; exceptions are modelled where *)
(* the script's own code raises them (json.loads, args["location"]).       *)
(***************************************************************************)
EXTENDS Integers, Sequences, FiniteSets, TLC

(* ---------------------------- bounds ----------------------------------- *)
MaxTurns == 2        \* user prompts submitted in one behaviour
MaxPolls == 2        \* non-terminal polls of one run
MaxBatch == 2        \* tool calls in one requires_action batch
MaxBlocks == 2       \* content blocks of the newest message (SpecRender)
MaxAnnotations == 1  \* annotations of one text block (SpecRender)

(* ---------------------------- Python values ---------------------------- *)
NoneV == [type |-> "NoneType"]
PyStr(s) == [type |-> "str", value |-> s]
PyList(l) == [type |-> "list", value |-> l]
EmptyDict == [k \in {} |-> 0]

(* Strings that the code takes apart are tuples of one-character strings.  *)
UpperChars == <<"A","B","C","D","E","F","G","H","I","J","K","L","M",
                "N","O","P","Q","R","S","T","U","V","W","X","Y","Z">>
LowerChars == <<"a","b","c","d","e","f","g","h","i","j","k","l","m",
                "n","o","p","q","r","s","t","u","v","w","x","y","z">>

LowerChar(c) ==
  IF \E i \in DOMAIN UpperChars : UpperChars[i] = c
  THEN LowerChars[CHOOSE i \in DOMAIN UpperChars : UpperChars[i] = c]
  ELSE c

lowerKeepsCase(s) == s

lower(s) == [i \in DOMAIN s |-> LowerChar(s[i])]

\* str.rfind, 1-based; 0 when the character does not occur
rfind(s, c) ==
  IF \E i \in DOMAIN s : s[i] = c
  THEN CHOOSE i \in DOMAIN s : s[i] = c /\ \A j \in DOMAIN s : s[j] = c => j <= i
  ELSE 0

\* os.path.splitext(p)[1]: the suffix from the last dot of the last path
\* component, empty when that component has no dot or only leading dots
splitext_ext(p) ==
  LET sep == rfind(p, "/")
      dot == rfind(p, ".")
  IN IF dot > sep /\ \E i \in (sep + 1)..(dot - 1) : p[i] # "."
     THEN SubSeq(p, dot, Len(p))
     ELSE <<>>

basenameKeepsPath(p) == p

\* os.path.basename(p): everything after the last slash
basename(p) == SubSeq(p, rfind(p, "/") + 1, Len(p))

(* ---------------------------- inputs ----------------------------------- *)
Prompts == {"describe this image", "summarize this"}

\* names of the file held by the sidebar uploader (None: no file)
UploadNames == { <<"c",".","p","n","g">>,
                 <<"d",".","c","s","v">>,
                 <<"P",".","J","P","G">> }
FileIds == {7}

ImageExts == { <<".","p","n","g">>, <<".","j","p","g">>, <<".","j","p","e","g">>,
               <<".","g","i","f">>, <<".","w","e","b","p">> }

FuncNames == {"get_current_weather", "get_current_time", "get_stock_price"}
ArgStrings == {"{\"location\": \"Seoul\"}", "{\"location\": \"Busan\"}", "{}", "{"}
HttpOutcomes == {"ok", "non200", "exception"}

Statuses == {"queued", "in_progress", "cancelling", "requires_action",
             "completed", "failed", "cancelled", "expired"}
ErrorStatuses == {"failed", "cancelled", "expired"}

ToolCallId(i) == 10 + i

ToolFunctions == [name : FuncNames, arguments : ArgStrings]

\* the tool-call batches a requires_action poll can carry
Batches ==
  UNION { { [i \in 1..n |-> [id |-> ToolCallId(i), function |-> f[i]]]
            : f \in [1..n -> ToolFunctions] } : n \in 1..MaxBatch }

ToolCall(i, name, arguments) ==
  [id |-> ToolCallId(i), function |-> [name |-> name, arguments |-> arguments]]

\* the batches drawn while whole turns are explored (Spec)
MainBatches ==
  { <<ToolCall(1, "get_current_weather", "{\"location\": \"Seoul\"}")>>,
    <<ToolCall(1, "get_current_time", "{\"location\": \"Seoul\"}"),
      ToolCall(2, "get_stock_price", "{}")>>,
    <<ToolCall(1, "get_stock_price", "{}"),
      ToolCall(2, "get_current_weather", "{}")>>,
    <<ToolCall(1, "get_stock_price", "{")>> }

(* ---------------------------- tool functions --------------------------- *)
\* body returned by the weather provider on status 200
WeatherBody(location) ==
  [main |-> [temp |-> 2146], weather |-> <<[description |-> "clear sky"]>>,
   timezone |-> 32400]
UtcNow == 1000

\* json.dumps: a JSON text is represented by the object it encodes
json_dumps(obj) == [json |-> obj]
EmptyObjectText == json_dumps(EmptyDict)      \* the literal "{}"
CityNotFound == json_dumps([error |-> "City not found"])

\* json.loads on the argument strings the remote side can send
json_loads(s) ==
  CASE s = "{\"location\": \"Seoul\"}" -> [ok |-> TRUE, value |-> [location |-> "Seoul"]]
    [] s = "{\"location\": \"Busan\"}" -> [ok |-> TRUE, value |-> [location |-> "Busan"]]
    [] s = "{}" -> [ok |-> TRUE, value |-> EmptyDict]
    [] OTHER -> [ok |-> FALSE, value |-> EmptyDict]

\* round(x, 1) on a value held in hundredths, result in tenths
round1(h) ==
  LET q == h \div 10
      r == h % 10
  IN IF r > 5 \/ (r = 5 /\ q % 2 = 1) THEN q + 1 ELSE q

\* get_location_data: [data, http] where http counts the GET requests issued
get_location_data(wkey, location, outcome) ==
  IF ~wkey THEN [data |-> NoneV, http |-> 0]
  ELSE IF outcome = "ok" THEN [data |-> WeatherBody(location), http |-> 1]
  ELSE [data |-> NoneV, http |-> 1]

get_current_weather(wkey, location, outcome) ==
  LET r == get_location_data(wkey, location, outcome)
  IN [http |-> r.http,
      output |-> IF r.data # NoneV
                 THEN json_dumps([location |-> location,
                                  temperature |-> round1(r.data.main.temp),
                                  unit |-> "celsius",
                                  description |-> r.data.weather[1].description])
                 ELSE CityNotFound]

get_current_time(wkey, location, outcome) ==
  LET r == get_location_data(wkey, location, outcome)
  IN [http |-> r.http,
      output |-> IF r.data # NoneV
                 THEN json_dumps([location |-> location,
                                  current_time |-> [epoch |-> UtcNow + r.data.timezone,
                                                    format |-> "%Y-%m-%d %I:%M %p"]])
                 ELSE CityNotFound]

(* ---------------------------- tool dispatch ---------------------------- *)
\* one iteration of the loop over tool_calls: the output for one tool call,
\* or raised when json.loads or args["location"] raises
DispatchOne(wkey, tool, outcome) ==
  LET func_name == tool.function.name
      parsed == json_loads(tool.function.arguments)
      args == parsed.value
  IN IF ~parsed.ok
     THEN [raised |-> TRUE, output |-> NoneV, invoked |-> <<>>, http |-> 0]
     ELSE IF func_name = "get_current_weather"
     THEN IF "location" \notin DOMAIN args
          THEN [raised |-> TRUE, output |-> NoneV, invoked |-> <<>>, http |-> 0]
          ELSE LET r == get_current_weather(wkey, args.location, outcome)
               IN [raised |-> FALSE, output |-> r.output,
                   invoked |-> <<[func |-> func_name, call |-> tool.id]>>, http |-> r.http]
     ELSE IF func_name = "get_current_time"
     THEN IF "location" \notin DOMAIN args
          THEN [raised |-> TRUE, output |-> NoneV, invoked |-> <<>>, http |-> 0]
          ELSE LET r == get_current_time(wkey, args.location, outcome)
               IN [raised |-> FALSE, output |-> r.output,
                   invoked |-> <<[func |-> func_name, call |-> tool.id]>>, http |-> r.http]
     ELSE [raised |-> FALSE, output |-> EmptyObjectText, invoked |-> <<>>, http |-> 0]

ToolOutput(tool, output) == [tool_call_id |-> tool.id, output |-> output]

\* the for loop over tool_calls, from index i with the accumulated state acc
RECURSIVE DispatchFrom(_, _, _, _, _)
DispatchFrom(wkey, tcs, net, i, acc) ==
  IF i > Len(tcs) THEN acc
  ELSE LET r == DispatchOne(wkey, tcs[i], net[i])
       IN IF r.raised
          THEN [acc EXCEPT !.raised = TRUE]
          ELSE DispatchFrom(wkey, tcs, net, i + 1,
                 [raised |-> FALSE,
                  tool_outputs |-> Append(acc.tool_outputs, ToolOutput(tcs[i], r.output)),
                  invoked |-> acc.invoked \o r.invoked,
                  http |-> acc.http + r.http])

\* the tool call names a tool function and carries a location for it
CallsToolFunction(tool) ==
  /\ tool.function.name \in {"get_current_weather", "get_current_time"}
  /\ json_loads(tool.function.arguments).ok
  /\ "location" \in DOMAIN json_loads(tool.function.arguments).value

\* what the weather provider does for each tool call of a batch; a call that
\* never asks the provider has the one entry "ok"
ProviderOutcomes(tcs) ==
  { net \in [DOMAIN tcs -> HttpOutcomes] :
      \A i \in DOMAIN tcs : ~CallsToolFunction(tcs[i]) => net[i] = "ok" }

DispatchSkipsLast(wkey, tcs, net) ==
  DispatchFrom(wkey, SubSeq(tcs, 1, Len(tcs) - 1), net, 1,
               [raised |-> FALSE, tool_outputs |-> <<>>, invoked |-> <<>>, http |-> 0])

Dispatch(wkey, tcs, net) ==
  DispatchFrom(wkey, tcs, net, 1,
               [raised |-> FALSE, tool_outputs |-> <<>>, invoked |-> <<>>, http |-> 0])

(* ---------------------------- file routing ----------------------------- *)
IsImageExt(file_ext) == file_ext \in ImageExts

\* msg_content and msg_attachments for a prompt and the uploader's file
RouteMessage(prompt, uploaded_file, file_id) ==
  IF uploaded_file = <<>>
  THEN [content |-> PyStr(prompt), attachments |-> <<>>]
  ELSE IF IsImageExt(lower(splitext_ext(uploaded_file)))
  THEN [content |-> PyList(<<[type |-> "text", text |-> prompt],
                            [type |-> "image_file", image_file |-> [file_id |-> file_id]]>>),
        attachments |-> <<>>]
  ELSE [content |-> PyStr(prompt),
        attachments |-> <<[file_id |-> file_id,
                           tools |-> <<[type |-> "code_interpreter"],
                                       [type |-> "file_search"]>>]>>]

(* ---------------------------- state ------------------------------------ *)
VARIABLES
  api_key, endpoint, weather_key,  \* configuration: TRUE when set and non-empty
  assistant_cache,     \* st.cache_resource entry of create_assistant (0: empty)
  session_state,       \* st.session_state: a record of the keys present
  remote,              \* objects created on the remote service so far
  pc,                  \* "idle" | "submitted" | "polling" | "render": position of the script
  stopped,             \* the last execution ended in st.stop()
  prompt,              \* local: the chat input of this execution
  uploaded_file,       \* local: name of the uploader's file (<<>>: None)
  file_id,             \* local: handle returned by the upload (0: no upload)
  message,             \* local: arguments of the create_message call
  run,                 \* local: id of the run being polled (0: none)
  run_status,          \* local: status returned by the last poll
  tool_calls,          \* local: batch seen by the current loop iteration
  tool_outputs,        \* local: outputs submitted by the current loop iteration
  invoked,             \* tool functions called by the current loop iteration
  http_gets,           \* weather-provider requests of the current loop iteration
  provider,            \* what the weather provider does for each call of the batch
  polls,               \* non-terminal polls of the current run
  loop_exit,           \* how the last polling loop ended
  error_shown,         \* st.error raised by the polling loop
  latest_content,      \* local: content blocks of messages.data[0]
  calls,               \* remote calls of the current execution, in order
  turns                \* prompts submitted so far

vars == <<api_key, endpoint, weather_key, assistant_cache, session_state, remote,
          pc, stopped, prompt, uploaded_file, file_id, message, run, run_status,
          tool_calls, tool_outputs, invoked, http_gets, provider, polls, loop_exit,
          error_shown, latest_content, calls, turns>>

config == <<api_key, endpoint, weather_key>>
locals == <<prompt, uploaded_file, file_id, message, run, run_status, tool_calls,
            tool_outputs, invoked, http_gets, provider, polls, latest_content>>
turn_inputs == <<prompt, uploaded_file, file_id, message>>
iteration == <<tool_calls, tool_outputs, invoked, http_gets, provider>>
NoIteration ==
  /\ tool_calls' = <<>>
  /\ tool_outputs' = <<>>
  /\ invoked' = <<>>
  /\ http_gets' = 0
  /\ provider' = <<>>

NoMessage == [content |-> NoneV, attachments |-> <<>>]
Call(op, thread, r) == [op |-> op, thread |-> thread, run |-> r]

Init ==
  /\ api_key \in BOOLEAN
  /\ endpoint \in BOOLEAN
  /\ weather_key \in BOOLEAN
  /\ assistant_cache = 0
  /\ session_state = EmptyDict
  /\ remote = [assistants |-> 0, threads |-> 0, runs |-> 0, files |-> 0]
  /\ pc = "idle"
  /\ stopped = FALSE
  /\ prompt = ""
  /\ uploaded_file = <<>>
  /\ file_id = 0
  /\ message = NoMessage
  /\ latest_content = <<>>
  /\ run = 0
  /\ run_status = ""
  /\ tool_calls = <<>>
  /\ tool_outputs = <<>>
  /\ invoked = <<>>
  /\ http_gets = 0
  /\ provider = <<>>
  /\ polls = 0
  /\ loop_exit = "none"
  /\ error_shown = FALSE
  /\ calls = <<>>
  /\ turns = 0

(* ---------------------------- configuration check ---------------------- *)
ConfigMissingBoth == ~api_key /\ ~endpoint

ConfigMissing == ~api_key \/ ~endpoint

\* the script reaches st.stop(): nothing after the check is executed
Halt ==
  /\ pc = "idle"
  /\ ConfigMissing
  /\ stopped' = TRUE
  /\ UNCHANGED <<config, assistant_cache, session_state, remote, pc, locals,
                 loop_exit, error_shown, calls, turns>>

(* ---------------------------- bootstrap -------------------------------- *)
BootstrapAlways == TRUE

BootstrapNeeded == "assistant" \notin DOMAIN session_state

\* the state after the "assistant" not in st.session_state block
Bootstrap ==
  IF BootstrapNeeded
  THEN LET hit == assistant_cache # 0
           a == IF hit THEN assistant_cache ELSE remote.assistants + 1
           t == remote.threads + 1
       IN [cache |-> a,
           ss |-> [assistant |-> a, thread |-> t, messages |-> <<>>],
           remote |-> [remote EXCEPT !.assistants = IF hit THEN @ ELSE @ + 1,
                                     !.threads = @ + 1],
           calls |-> (IF hit THEN <<>> ELSE <<Call("create_assistant", 0, 0)>>)
                     \o <<Call("create_thread", 0, 0)>>]
  ELSE [cache |-> assistant_cache, ss |-> session_state, remote |-> remote,
        calls |-> <<>>]

\* an execution with no chat input (first load, or a sidebar interaction)
Rerun ==
  /\ pc = "idle"
  /\ ~ConfigMissing
  /\ LET b == Bootstrap
     IN /\ assistant_cache' = b.cache
        /\ session_state' = b.ss
        /\ remote' = b.remote
        /\ calls' = b.calls
  /\ error_shown' = FALSE
  /\ UNCHANGED <<config, pc, stopped, locals, loop_exit, turns>>

(* ---------------------------- chat input handler ----------------------- *)
AppendUserTurn(messages, p) == Append(messages, [role |-> "user", content |-> PyStr(p)])

\* a prompt is entered: the execution runs up to the user-turn append
SubmitTurn(p, f) ==
  /\ pc = "idle"
  /\ ~ConfigMissing
  /\ turns < MaxTurns
  /\ LET b == Bootstrap
     IN /\ assistant_cache' = b.cache
        /\ session_state' = [b.ss EXCEPT !.messages = AppendUserTurn(@, p)]
        /\ remote' = b.remote
        /\ calls' = b.calls
  /\ prompt' = p
  /\ uploaded_file' = f
  /\ file_id' = 0
  /\ message' = NoMessage
  /\ latest_content' = <<>>
  /\ pc' = "submitted"
  /\ run_status' = ""
  /\ NoIteration
  /\ polls' = 0
  /\ error_shown' = FALSE
  /\ turns' = turns + 1
  /\ UNCHANGED <<config, stopped, run, loop_exit>>

\* the upload (when a file is held) returns fid; the message is routed and
\* created and the run is started
SendMessageRunFirst(fid) ==
  /\ pc = "submitted"
  /\ LET up == uploaded_file # <<>>
         m == RouteMessage(prompt, uploaded_file, fid)
         th == session_state.thread
         r == remote.runs + 1
     IN /\ file_id' = IF up THEN fid ELSE 0
        /\ remote' = [remote EXCEPT !.runs = r, !.files = IF up THEN @ + 1 ELSE @]
        /\ message' = m
        /\ run' = r
        /\ calls' = calls
                    \o (IF up THEN <<Call("upload_file", 0, 0)>> ELSE <<>>)
                    \o <<Call("create_run", th, r), Call("create_message", th, 0)>>
  /\ loop_exit' = "none"
  /\ pc' = "polling"
  /\ UNCHANGED <<config, assistant_cache, session_state, stopped, prompt,
                 uploaded_file, run_status, iteration, polls, error_shown,
                 latest_content, turns>>

SendMessage(fid) ==
  /\ pc = "submitted"
  /\ LET up == uploaded_file # <<>>
         m == RouteMessage(prompt, uploaded_file, fid)
         th == session_state.thread
         r == remote.runs + 1
     IN /\ file_id' = IF up THEN fid ELSE 0
        /\ remote' = [remote EXCEPT !.runs = r, !.files = IF up THEN @ + 1 ELSE @]
        /\ message' = m
        /\ run' = r
        /\ calls' = calls
                    \o (IF up THEN <<Call("upload_file", 0, 0)>> ELSE <<>>)
                    \o <<Call("create_message", th, 0), Call("create_run", th, r)>>
  /\ loop_exit' = "none"
  /\ pc' = "polling"
  /\ UNCHANGED <<config, assistant_cache, session_state, stopped, prompt,
                 uploaded_file, run_status, iteration, polls, error_shown,
                 latest_content, turns>>

(* ---------------------------- polling loop ---------------------------- *)
TerminalStatuses == {"completed"} \cup ErrorStatuses
WaitingStatuses == Statuses \ (TerminalStatuses \cup {"requires_action"})

GetRun == Call("get_run", session_state.thread, run)
SubmitToolOutputs == Call("submit_tool_outputs", session_state.thread, run)

\* retrieve returns completed: break
PollCompleted ==
  /\ pc = "polling"
  /\ run_status' = "completed"
  /\ calls' = Append(calls, GetRun)
  /\ loop_exit' = "DONE"
  /\ pc' = "render"
  /\ NoIteration
  /\ UNCHANGED <<config, assistant_cache, session_state, remote, stopped,
                 turn_inputs, run, polls, error_shown, latest_content, turns>>

\* retrieve returns requires_action with the batch tcs; net[i] is what the
\* weather provider does if the i-th tool call reaches it
PollRequiresAction(tcs, net) ==
  /\ pc = "polling"
  /\ polls < MaxPolls
  /\ run_status' = "requires_action"
  /\ LET d == Dispatch(weather_key, tcs, net)
     IN /\ IF d.raised
           THEN \* the exception ends the execution: nothing is submitted, the
                \* run is left as it is and the locals keep what was built so far
                /\ calls' = Append(calls, GetRun)
                /\ loop_exit' = "EXCEPTION"
                /\ pc' = "idle"
                /\ UNCHANGED polls
           ELSE /\ calls' = calls \o <<GetRun, SubmitToolOutputs>>
                /\ polls' = polls + 1
                /\ UNCHANGED <<loop_exit, pc>>
        /\ tool_calls' = tcs
        /\ tool_outputs' = d.tool_outputs
        /\ invoked' = d.invoked
        /\ http_gets' = d.http
        /\ provider' = net
  /\ UNCHANGED <<config, assistant_cache, session_state, remote, stopped,
                 turn_inputs, run, error_shown, latest_content, turns>>

\* retrieve returns failed, cancelled or expired: st.error and break
PollError(st) ==
  /\ pc = "polling"
  /\ st \in ErrorStatuses
  /\ run_status' = st
  /\ calls' = Append(calls, GetRun)
  /\ error_shown' = TRUE
  /\ loop_exit' = "ERROR"
  /\ pc' = "render"
  /\ NoIteration
  /\ UNCHANGED <<config, assistant_cache, session_state, remote, stopped,
                 turn_inputs, run, polls, latest_content, turns>>

\* retrieve returns any other status: sleep and poll again
PollWaitingExits(st) ==
  /\ pc = "polling"
  /\ polls < MaxPolls
  /\ st \in WaitingStatuses
  /\ run_status' = st
  /\ calls' = Append(calls, GetRun)
  /\ polls' = polls + 1
  /\ loop_exit' = "DONE"
  /\ pc' = "render"
  /\ NoIteration
  /\ UNCHANGED <<config, assistant_cache, session_state, remote, stopped,
                 turn_inputs, run, error_shown, latest_content, turns>>

PollWaiting(st) ==
  /\ pc = "polling"
  /\ polls < MaxPolls
  /\ st \in WaitingStatuses
  /\ run_status' = st
  /\ calls' = Append(calls, GetRun)
  /\ polls' = polls + 1
  /\ NoIteration
  /\ UNCHANGED <<config, assistant_cache, session_state, remote, stopped,
                 turn_inputs, run, loop_exit, pc, error_shown, latest_content, turns>>

(* ---------------------------- result processing ------------------------ *)
FileBytes(fid) == [bytes_of |-> fid]

\* the loop over the annotations of one text block
RECURSIVE RenderAnnotations(_, _, _)
RenderAnnotations(anns, i, files) ==
  IF i > Len(anns) THEN files
  ELSE RenderAnnotations(anns, i + 1,
         IF anns[i].type = "file_path"
         THEN Append(files, <<basename(anns[i].text), FileBytes(anns[i].file_path.file_id)>>)
         ELSE files)

\* one iteration of the loop over latest_msg.content
RenderBlock(acc, content) ==
  IF content.type = "text"
  THEN [acc EXCEPT !.response_txt = @ \o content.text.value,
                   !.files_to_download = RenderAnnotations(content.text.annotations, 1, @)]
  ELSE IF content.type = "image_file"
  THEN [acc EXCEPT !.images_to_show = Append(@, FileBytes(content.image_file.file_id))]
  ELSE acc

RECURSIVE RenderFrom(_, _, _)
RenderFrom(blocks, i, acc) ==
  IF i > Len(blocks) THEN acc
  ELSE RenderFrom(blocks, i + 1, RenderBlock(acc, blocks[i]))

RenderBlocks(blocks) ==
  RenderFrom(blocks, 1,
             [response_txt |-> "", images_to_show |-> <<>>, files_to_download |-> <<>>])

AssistantTurn(r) ==
  [role |-> "assistant", content |-> PyStr(r.response_txt),
   images |-> r.images_to_show, files |-> r.files_to_download]

AppendAssistantTurnOverwrites(messages, r) ==
  [messages EXCEPT ![Len(messages)] = AssistantTurn(r)]

AppendAssistantTurn(messages, r) == Append(messages, AssistantTurn(r))

ReadFileCalls(n) == [i \in 1..n |-> Call("read_file", 0, 0)]

\* everything after the polling loop, for the newest message's content blocks
RenderWith(blocks) ==
  /\ pc = "render"
  /\ LET r == RenderBlocks(blocks)
     IN /\ session_state' = [session_state EXCEPT !.messages = AppendAssistantTurn(@, r)]
        /\ calls' = calls \o <<Call("list_messages", session_state.thread, 0)>>
                          \o ReadFileCalls(Len(r.images_to_show) + Len(r.files_to_download))
  /\ latest_content' = blocks
  /\ pc' = "idle"
  /\ UNCHANGED <<config, assistant_cache, remote, stopped, turn_inputs, run,
                 run_status, iteration, polls, loop_exit, error_shown, turns>>

(* content blocks the remote side can return *)
TextBlock(v, anns) == [type |-> "text", text |-> [value |-> v, annotations |-> anns]]
ImageBlock(fid) == [type |-> "image_file", image_file |-> [file_id |-> fid]]
FilePathAnn(path, fid) == [type |-> "file_path", text |-> path, file_path |-> [file_id |-> fid]]
CitationAnn(path, fid) == [type |-> "file_citation", text |-> path, file_citation |-> [file_id |-> fid]]

SandboxPath == <<"/","s","/","r",".","x">>
BarePath == <<"o",".","c">>

MainContents ==
  { <<TextBlock("It is 21.5 C in Seoul.", <<>>)>>,
    <<TextBlock("See ", <<FilePathAnn(SandboxPath, 21)>>), ImageBlock(31),
      TextBlock("the chart.", <<CitationAnn(BarePath, 23)>>)>> }

RenderTurn == \E blocks \in MainContents : RenderWith(blocks)

(* ---------------------------- specification ---------------------------- *)
Next ==
  \/ Halt
  \/ Rerun
  \/ \E p \in Prompts, f \in UploadNames \cup {<<>>} : SubmitTurn(p, f)
  \/ \E fid \in FileIds : SendMessage(fid)
  \/ PollCompleted
  \/ \E tcs \in MainBatches : \E net \in ProviderOutcomes(tcs) : PollRequiresAction(tcs, net)
  \/ \E st \in ErrorStatuses : PollError(st)
  \/ \E st \in WaitingStatuses : PollWaiting(st)
  \/ RenderTurn

Spec == Init /\ [][Next]_vars

(* ---------------------------- dispatch on every batch ------------------ *)
\* Every batch of up to MaxBatch tool calls is dispatched by the first poll
\* of a turn, from the state the turn is in when its polling loop starts.
TurnStarted(p) ==
  /\ api_key = TRUE
  /\ endpoint = TRUE
  /\ assistant_cache = 1
  /\ session_state = [assistant |-> 1, thread |-> 1,
                      messages |-> <<[role |-> "user", content |-> PyStr(p)]>>]
  /\ remote = [assistants |-> 1, threads |-> 1, runs |-> 1, files |-> 0]
  /\ stopped = FALSE
  /\ prompt = p
  /\ uploaded_file = <<>>
  /\ file_id = 0
  /\ message = [content |-> PyStr(p), attachments |-> <<>>]
  /\ run = 1
  /\ latest_content = <<>>
  /\ turns = 1

LoopStarted(p) ==
  /\ TurnStarted(p)
  /\ pc = "polling"
  /\ run_status = ""
  /\ tool_calls = <<>>
  /\ tool_outputs = <<>>
  /\ invoked = <<>>
  /\ http_gets = 0
  /\ provider = <<>>
  /\ polls = 0
  /\ loop_exit = "none"
  /\ error_shown = FALSE
  /\ calls = <<Call("create_assistant", 0, 0), Call("create_thread", 0, 0),
               Call("create_message", 1, 0), Call("create_run", 1, 1)>>

InitDispatch ==
  /\ weather_key \in BOOLEAN
  /\ LoopStarted("summarize this")

DispatchAny ==
  /\ pc = "polling"
  /\ polls = 0
  /\ \E tcs \in Batches : \E net \in ProviderOutcomes(tcs) : PollRequiresAction(tcs, net)

NextDispatch == DispatchAny

SpecDispatch == InitDispatch /\ [][NextDispatch]_vars

(* ---------------------------- rendering every content ------------------ *)
\* Every list of up to MaxBlocks content blocks is rendered from the state a
\* turn is in when its polling loop has exited.
SeqsUpTo(S, n) == UNION { [1..k -> S] : k \in 0..n }

AllAnnotations ==
  { FilePathAnn(SandboxPath, 21), FilePathAnn(BarePath, 22), CitationAnn(SandboxPath, 23) }

AllBlocks ==
  { TextBlock(v, anns) : v \in {"A", "B"}, anns \in SeqsUpTo(AllAnnotations, MaxAnnotations) }
  \cup { ImageBlock(31), ImageBlock(32) }
  \cup { [type |-> "image_url", image_url |-> [url |-> "u"]] }

AllContents == SeqsUpTo(AllBlocks, MaxBlocks)

LoopExited(p, st) ==
  /\ TurnStarted(p)
  /\ pc = "render"
  /\ run_status = st
  /\ tool_calls = <<>>
  /\ tool_outputs = <<>>
  /\ invoked = <<>>
  /\ http_gets = 0
  /\ provider = <<>>
  /\ polls = 0
  /\ loop_exit = (IF st = "completed" THEN "DONE" ELSE "ERROR")
  /\ error_shown = (st # "completed")
  /\ calls = <<Call("create_assistant", 0, 0), Call("create_thread", 0, 0),
               Call("create_message", 1, 0), Call("create_run", 1, 1),
               Call("get_run", 1, 1)>>

InitRender ==
  /\ weather_key = TRUE
  /\ \E st \in {"completed", "failed"} : LoopExited("summarize this", st)

RenderAny ==
  /\ pc = "render"
  /\ \E blocks \in AllContents : RenderWith(blocks)

NextRender == RenderAny

SpecRender == InitRender /\ [][NextRender]_vars

\* the start states of SpecDispatch and SpecRender are states of Spec
NotLoopStarted == ~(\E p \in Prompts : LoopStarted(p))
NotLoopExited == ~(\E p \in Prompts, st \in TerminalStatuses : LoopExited(p, st))

(* ======================================================================= *)
(* Properties                                                              *)
(* ======================================================================= *)
Transcript ==
  IF "messages" \in DOMAIN session_state THEN session_state.messages ELSE <<>>

LastCall == calls[Len(calls)]
Submitted == Len(calls) >= 2 /\ LastCall.op = "submit_tool_outputs"
IsPrefix(a, b) == Len(a) <= Len(b) /\ \A i \in DOMAIN a : a[i] = b[i]

\* C1: when the polling loop exits at ERROR (status failed, cancelled or
\* expired), no assistant Turn is appended for that user turn: the newest
\* transcript entry stays the user Turn.
C1_ErrorAppendsNoAssistantTurn ==
  loop_exit = "ERROR" => Transcript[Len(Transcript)].role = "user"

\* C2: submit_tool_outputs never carries a partial batch: after a poll that
\* saw requires_action with N tool calls, the submit call of that iteration
\* carries N outputs, the i-th tagged with the id of the i-th tool call, and
\* every submit call directly follows a get_run (one submit per poll).
C2_FullBatchSubmitted ==
  /\ Submitted =>
       /\ run_status = "requires_action"
       /\ tool_calls # <<>>
       /\ Len(tool_outputs) = Len(tool_calls)
       /\ \A i \in DOMAIN tool_calls : tool_outputs[i].tool_call_id = tool_calls[i].id
  /\ \A i \in DOMAIN calls :
       calls[i].op = "submit_tool_outputs" => (i > 1 /\ calls[i - 1].op = "get_run")

C2_Witness ==
  /\ Submitted
  /\ Len(tool_calls) >= 2
  /\ tool_calls[2].function.name = "get_current_time"

\* C3: single-flight: a run is created only between turns, and only when the
\* previous turn's polling loop has reached DONE or ERROR (or there was no
\* previous turn); in particular none is created while a loop is running or
\* after a run was seen failed, cancelled or expired within the same turn.
C3_SingleFlight ==
  [][run' # run => (pc = "submitted" /\ (run = 0 \/ loop_exit \in {"DONE", "ERROR"}))]_vars

\* C4: bootstrap is idempotent: create_assistant and create_thread are each
\* performed at most once, every execution uses the handles of the first
\* bootstrap for every call on a thread, and the transcript is never reset
\* (it holds one user Turn per prompt submitted so far).
C4_BootstrapOnce ==
  /\ remote.assistants <= 1
  /\ remote.threads <= 1
  /\ "assistant" \in DOMAIN session_state =>
       /\ session_state.assistant = 1
       /\ session_state.thread = 1
       /\ assistant_cache = 1
       /\ Cardinality({i \in DOMAIN Transcript : Transcript[i].role = "user"}) = turns
  /\ \A i \in DOMAIN calls :
       /\ calls[i].op \in {"create_message", "create_run", "get_run",
                           "submit_tool_outputs", "list_messages"} => calls[i].thread = 1
       /\ calls[i].op \in {"create_assistant", "create_thread"} => turns <= 1

C4_Witness ==
  /\ turns = 2
  /\ pc = "polling"
  /\ remote.assistants = 1
  /\ remote.threads = 1
  /\ Len(Transcript) >= 3

\* C5: tool dispatch never aborts the polling loop with an exception: for
\* every batch seen by a requires_action poll the outputs are built and
\* submitted and the loop goes on polling.
C5_DispatchNeverRaises ==
  tool_calls # <<>> =>
    /\ loop_exit # "EXCEPTION"
    /\ pc = "polling"
    /\ Submitted
    /\ Len(tool_outputs) = Len(tool_calls)

\* C6: the uploaded file is routed by its extension to exactly one path: an
\* image extension gives a two-part content (text = prompt, image = uploaded
\* handle) and no attachment; any other extension gives the plain prompt and
\* one attachment with the uploaded handle and the tools code_interpreter and
\* file_search; no file gives the plain prompt and no attachment; never an
\* inline image together with an attachment.
EndsWithIgnoringCase(name, e) ==
  /\ Len(name) > Len(e)
  /\ \A k \in DOMAIN e : LowerChar(name[Len(name) - Len(e) + k]) = e[k]

HasImageExtension(name) == \E e \in ImageExts : EndsWithIgnoringCase(name, e)

C6_RoutedByExtension ==
  message # NoMessage =>
    /\ uploaded_file = <<>> =>
         /\ message.content = PyStr(prompt)
         /\ message.attachments = <<>>
    /\ (uploaded_file # <<>> /\ HasImageExtension(uploaded_file)) =>
         /\ message.content =
              PyList(<<[type |-> "text", text |-> prompt],
                       [type |-> "image_file", image_file |-> [file_id |-> file_id]]>>)
         /\ message.attachments = <<>>
    /\ (uploaded_file # <<>> /\ ~HasImageExtension(uploaded_file)) =>
         /\ message.content = PyStr(prompt)
         /\ message.attachments =
              <<[file_id |-> file_id,
                 tools |-> <<[type |-> "code_interpreter"], [type |-> "file_search"]>>]>>
    /\ ~(message.content.type = "list" /\ message.attachments # <<>>)
    /\ uploaded_file # <<>> => file_id \in FileIds

C6_Witness ==
  /\ pc = "polling"
  /\ uploaded_file = <<"P",".","J","P","G">>
  /\ message.content.type = "list"
  /\ message.attachments = <<>>

\* C7: a tool call whose function name is neither get_current_weather nor
\* get_current_time is answered with "{}" under its own call id in the batch
\* that is submitted; it does not end the loop, does not shorten the batch
\* and calls neither tool function.
C7_UnknownAnsweredEmpty ==
  \A i \in DOMAIN tool_calls :
    tool_calls[i].function.name \notin {"get_current_weather", "get_current_time"} =>
      /\ Submitted
      /\ pc = "polling"
      /\ loop_exit = "none"
      /\ Len(tool_outputs) = Len(tool_calls)
      /\ tool_outputs[i] = [tool_call_id |-> tool_calls[i].id, output |-> EmptyObjectText]
      /\ \A k \in DOMAIN invoked : invoked[k].call # tool_calls[i].id

\* C8: the transcript is append-only: every step leaves the earlier entries
\* unchanged in content and position and appends at most one Turn, whose
\* role is user or assistant.
C8_AppendOnly ==
  [][/\ IsPrefix(Transcript, Transcript')
     /\ Len(Transcript') <= Len(Transcript) + 1
     /\ Len(Transcript') = Len(Transcript) + 1 =>
          Transcript'[Len(Transcript')].role \in {"user", "assistant"}]_vars

C8_Witness ==
  /\ pc = "idle"
  /\ Len(Transcript) = 4
  /\ Transcript[2].role = "assistant"
  /\ loop_exit = "ERROR"

\* C9: the rendered Turn's text is the concatenation of the text blocks'
\* values in block order, its images are one entry per image_file block in
\* block order, and its files are one entry per file_path annotation of the
\* text blocks in order, each named by the trailing path component of the
\* annotation text; other annotation types and block types contribute nothing.
RECURSIVE TextOf(_)
TextOf(blocks) ==
  IF blocks = <<>> THEN ""
  ELSE (IF Head(blocks).type = "text" THEN Head(blocks).text.value ELSE "")
       \o TextOf(Tail(blocks))

IsImageBlock(b) == b.type = "image_file"
IsFilePath(a) == a.type = "file_path"

RECURSIVE FilePathsOf(_)
FilePathsOf(blocks) ==
  IF blocks = <<>> THEN <<>>
  ELSE (IF Head(blocks).type = "text"
        THEN SelectSeq(Head(blocks).text.annotations, IsFilePath)
        ELSE <<>>)
       \o FilePathsOf(Tail(blocks))

\* the longest suffix of path that holds no slash
TrailingComponent(path) ==
  LET k == CHOOSE j \in 1..(Len(path) + 1) :
             /\ \A m \in j..Len(path) : path[m] # "/"
             /\ (j = 1 \/ path[j - 1] = "/")
  IN [m \in 1..(Len(path) - k + 1) |-> path[k + m - 1]]

C9_RenderedTurn ==
  pc = "idle" =>
    LET t == Transcript[Len(Transcript)]
        imgs == SelectSeq(latest_content, IsImageBlock)
        anns == FilePathsOf(latest_content)
    IN /\ t.role = "assistant"
       /\ t.content = PyStr(TextOf(latest_content))
       /\ t.images = [k \in 1..Len(imgs) |-> FileBytes(imgs[k].image_file.file_id)]
       /\ t.files = [k \in 1..Len(anns) |->
                       <<TrailingComponent(anns[k].text), FileBytes(anns[k].file_path.file_id)>>]

C9_Witness ==
  /\ pc = "idle"
  /\ latest_content = <<TextBlock("A", <<FilePathAnn(SandboxPath, 21)>>), ImageBlock(31)>>
  /\ Transcript[Len(Transcript)].files = << <<<<"r",".","x">>, FileBytes(21)>> >>
  /\ Transcript[Len(Transcript)].images = <<FileBytes(31)>>

\* C10: with the API key or the endpoint missing the script halts before any
\* interaction: no remote call, no session, no user turn; with only the
\* weather key missing the script does not halt, and every tool function
\* that is called answers the error sentinel without an HTTP request.
C10_ConfigErrors ==
  /\ (~api_key \/ ~endpoint) =>
       /\ calls = <<>>
       /\ remote = [assistants |-> 0, threads |-> 0, runs |-> 0, files |-> 0]
       /\ session_state = EmptyDict
       /\ turns = 0
       /\ pc = "idle"
  /\ (api_key /\ endpoint) => ~stopped
  /\ ~weather_key =>
       /\ http_gets = 0
       /\ \A k \in DOMAIN invoked :
            \E i \in DOMAIN tool_outputs :
              /\ tool_outputs[i].tool_call_id = invoked[k].call
              /\ tool_outputs[i].output = CityNotFound

C10_Witness ==
  /\ stopped
  /\ ~endpoint
  /\ api_key
  /\ calls = <<>>

\* the degraded case of C10 is reached as well
C10_DegradedReached ==
  /\ api_key /\ endpoint /\ ~weather_key
  /\ Len(invoked) >= 1
  /\ Submitted

\* C11: whenever a tool function was invoked and its location lookup failed
\* (no weather key, a non-200 answer or a network exception), its output is
\* exactly {"error": "City not found"} for either tool and any cause, that
\* output is delivered to the remote run by submit_tool_outputs, and the loop
\* is not at ERROR.
LookupFailed(i) == ~weather_key \/ provider[i] # "ok"
C11_LookupFailureDelivered ==
  \A k \in DOMAIN invoked : \A i \in DOMAIN tool_calls :
    (tool_calls[i].id = invoked[k].call /\ LookupFailed(i)) =>
      /\ Submitted
      /\ \E j \in DOMAIN tool_outputs :
           tool_outputs[j] = [tool_call_id |-> tool_calls[i].id,
                              output |-> [json |-> [error |-> "City not found"]]]
      /\ loop_exit # "ERROR"

\* C12: requires_action is re-entrant: whenever the newest poll observed
\* requires_action the loop is back at polling, and that poll was followed by
\* exactly one submit_tool_outputs (the log ends get_run, submit_tool_outputs);
\* the loop is never left from the dispatch of a requires_action poll.
C12_DispatchReturnsToPolling ==
  run_status = "requires_action" =>
    /\ pc = "polling"
    /\ Len(calls) >= 2
    /\ calls[Len(calls) - 1].op = "get_run"
    /\ calls[Len(calls)].op = "submit_tool_outputs"

\* C13: the user Turn recorded for a turn is what was sent: once the message
\* of the turn has been created, the content of the newest transcript entry
\* (the user Turn) equals the content passed to create_message, the
\* structured list when an image was attached and the plain prompt otherwise.
C13_UserTurnIsWhatWasSent ==
  pc = "polling" =>
    /\ Transcript[Len(Transcript)].role = "user"
    /\ Transcript[Len(Transcript)].content = message.content

\* C14: the polling loop is left only by a poll that returned completed,
\* failed, cancelled or expired: whenever the script is past the loop or has
\* ended after polling, the newest status observed is one of those four.
C14_ExitOnlyOnTerminalStatus ==
  (pc \in {"render", "idle"} /\ run_status # "") => run_status \in TerminalStatuses

\* C15: a poll that returns queued or in_progress only waits: the step logs
\* the one get_run and no submit_tool_outputs, invokes no tool function and
\* asks the weather provider nothing, leaves the transcript, the run id, the
\* thread handle and the assistant handle as they were and stays in the
\* loop; and the next remote call after such a poll is again a get_run on
\* the same run id.
WaitingPolled == pc = "polling" /\ run_status \in {"queued", "in_progress"}
C15_WaitingPollOnlyWaits ==
  [][/\ (pc = "polling" /\ run_status' \in {"queued", "in_progress"} /\ calls' # calls) =>
          /\ calls' = Append(calls, Call("get_run", session_state.thread, run))
          /\ invoked' = <<>>
          /\ tool_outputs' = <<>>
          /\ http_gets' = 0
          /\ pc' = "polling"
          /\ UNCHANGED <<session_state, run, assistant_cache, remote>>
     /\ (WaitingPolled /\ calls' # calls) =>
          /\ Len(calls') > Len(calls)
          /\ calls'[Len(calls) + 1] = Call("get_run", session_state.thread, run)
          /\ UNCHANGED run]_vars

C15_Witness ==
  /\ WaitingPolled
  /\ polls = 2
  /\ calls[Len(calls)] = Call("get_run", session_state.thread, run)
  /\ calls[Len(calls) - 1] = calls[Len(calls)]
  /\ Transcript[Len(Transcript)].role = "user"

\* C16: the remote calls of one user turn come in a fixed order: an optional
\* upload_file, one create_message, one create_run, then get_run calls with
\* a submit_tool_outputs only right after a get_run that returned
\* requires_action, and list_messages and read_file only once the loop has
\* exited; every thread-scoped call targets the session's one thread and
\* every run-scoped call the turn's run; the user Turn is in the transcript
\* before create_message is issued.
Follows ==
  { <<"create_assistant", "create_thread">>,
    <<"create_thread", "upload_file">>, <<"create_thread", "create_message">>,
    <<"upload_file", "create_message">>,
    <<"create_message", "create_run">>,
    <<"create_run", "get_run">>,
    <<"get_run", "get_run">>, <<"get_run", "submit_tool_outputs">>,
    <<"submit_tool_outputs", "get_run">>,
    <<"get_run", "list_messages">>,
    <<"list_messages", "read_file">>, <<"read_file", "read_file">> }
FirstOps == {"create_assistant", "create_thread", "upload_file", "create_message"}
ThreadOps == {"create_message", "create_run", "get_run", "submit_tool_outputs", "list_messages"}
RunOps == {"create_run", "get_run", "submit_tool_outputs"}
Issued(op) == \E i \in DOMAIN calls : calls[i].op = op
C16_CallOrder ==
  /\ pc = "submitted" =>
       /\ Len(Transcript) > 0
       /\ Transcript[Len(Transcript)] = [role |-> "user", content |-> PyStr(prompt)]
       /\ \A i \in DOMAIN calls : calls[i].op \in {"create_assistant", "create_thread"}
  /\ calls # <<>> => calls[1].op \in FirstOps
  /\ \A i \in 1..(Len(calls) - 1) : <<calls[i].op, calls[i + 1].op>> \in Follows
  /\ pc \in {"polling", "render"} =>
       /\ Issued("create_message")
       /\ Issued("create_run")
       /\ Issued("upload_file") <=> uploaded_file # <<>>
  /\ pc = "render" => (LastCall.op = "get_run" /\ run_status \in TerminalStatuses)
  /\ Submitted => run_status = "requires_action"
  /\ Issued("list_messages") =>
       (pc = "idle" /\ loop_exit \in {"DONE", "ERROR"} /\ run_status \in TerminalStatuses)
  /\ \A i \in DOMAIN calls :
       /\ calls[i].op \in ThreadOps => calls[i].thread = session_state.thread
       /\ calls[i].op \in RunOps => calls[i].run = run

C16_Witness ==
  /\ pc = "idle"
  /\ loop_exit = "DONE"
  /\ Issued("upload_file")
  /\ Issued("submit_tool_outputs")
  /\ Issued("read_file")
  /\ turns = 2

\* C17: whenever no turn is being processed the transcript has even length
\* and alternates user, assistant, user, assistant, ... from a user Turn:
\* every prompt has contributed one user Turn followed by one assistant Turn.
C17_TranscriptAlternates ==
  pc = "idle" =>
    /\ Len(Transcript) % 2 = 0
    /\ \A i \in DOMAIN Transcript :
         Transcript[i].role = (IF i % 2 = 1 THEN "user" ELSE "assistant")

============================================================================
